---------------------------- MODULE Spec2Model ----------------------------
(***************************************************************************)
(* Model of the countdown / sequential timer of src/App.tsx (component     *)
(* App and its child CountdownDisplay).                                    *)
(*                                                                         *)
(* One action per control of the page and per timer callback; a control    *)
(* invokes its event handler.  An action is the whole React update the     *)
(* handler causes: the handler's set-state calls (read from the values its *)
(* closure captured at the last render), the render, and the effects that  *)
(* run after it (the re-seed effect of lines 217-231, the display effect   *)
(* of lines 508-518, CountdownDisplay's completion effect of lines 93-102  *)
(* and the tick effect of lines 460-506, which clears and sets the         *)
(* interval) until no state changes any more.                              *)
(*                                                                         *)
(* The interval callback of lines 464-502 enqueues functional updaters.    *)
(* React applies the updaters of one batch during the next render, in the  *)
(* order in which the useState hooks are declared (remainingTime, line     *)
(* 182, before mainTimerRemainingTime, line 184), each on the value the    *)
(* state had before the tick; the set-state calls made inside an updater   *)
(* are applied after the updaters' own results.                            *)
(*                                                                         *)
(* Step and preset names and the timerName field do not influence the      *)
(* engine and are left out; array indices are 0-based as in the source     *)
(* (StepAt).                                                               *)
(***************************************************************************)
EXTENDS Integers, Sequences, FiniteSets, TLC

\* ------------------------------------------------------------------ bounds
\* largest total (in seconds) the user dials into the time entry
MaxEntry == 2
\* largest total duration (in seconds) of the live step sequence the user builds
MaxTotal == 2
\* largest total duration (in seconds) of all steps the user keeps in presets
MaxStored == 2

\* --------------------------------------------------------- program constants
HoursWrap == 24
MinutesWrap == 60
SecondsWrap == 60
SecondsPerHour == 3600
SecondsPerMinute == 60
\* the auto-stop timeout of line 264, 60000 ms, in seconds
AlarmSeconds == 60

VARIABLES
    inputHours, inputMinutes, inputSeconds,       \* lines 173-175
    displayHours, displayMinutes, displaySeconds, \* lines 176-178
    steps,                                        \* line 179
    isRunning,                                    \* line 180
    currentStepIndex,                             \* line 181
    remainingTime,                                \* line 182
    isMainTimerRunning,                           \* line 183
    mainTimerRemainingTime,                       \* line 184
    isPaused,                                     \* line 185
    presets,                                      \* line 187
    isAlarmPlaying,                               \* line 189
    isUsingSteps,                                 \* line 190
    alarmTimeout,                                 \* line 193: a 60 s timeout is pending
    alarmDeadline,    \* seconds until the timeout of alarmTimeoutRef fires
    pendingTimeouts,  \* timeouts of line 262 set and neither fired nor cleared
    liveIntervals,    \* intervals of line 464 set and not cleared
    storage,          \* the item 'timer-presets' of localStorage, line 16
    mounted,          \* React keeps the component tree rendered
    \* history variables, written by no handler and read by none
    op,          \* the operation performed last
    alarmsNow,   \* number of playAlarm() calls it made
    runClean,    \* start() from idle happened and only ticks followed
    runTicks,    \* ticks since that start()
    runAlarms,   \* playAlarm() calls since that start()
    snap,        \* counters held when pause() was invoked on a running engine
    sinceTrigger, \* seconds since the last playAlarm() call; -1 if there was
                  \* none, or a handler has called stopAlarm() since
    lastWheel,    \* <<type, delta>> of the wheel event, if the last
                  \* operation was one on an idle engine
    prevEntry,    \* the time entry before that wheel event
    runPlain      \* start() from idle happened and only ticks, pause() and
                  \* resume() followed

vars == <<inputHours, inputMinutes, inputSeconds,
          displayHours, displayMinutes, displaySeconds,
          steps, isRunning, currentStepIndex, remainingTime,
          isMainTimerRunning, mainTimerRemainingTime, isPaused,
          presets, isAlarmPlaying, isUsingSteps, alarmTimeout,
          alarmDeadline, pendingTimeouts, liveIntervals, storage, mounted,
          op, alarmsNow, runClean, runTicks, runAlarms, snap, sinceTrigger,
          lastWheel, prevEntry, runPlain>>

\* ----------------------------------------------------------- pure helpers

\* hours * 3600 + minutes * 60 + seconds
ToSeconds(h, m, s) == h * SecondsPerHour + m * SecondsPerMinute + s

\* Math.floor(totalSeconds / 3600)
HoursOf(t) == t \div SecondsPerHour

\* Math.floor((totalSeconds % 3600) / 60)
MinutesOf(t) == (t % SecondsPerHour) \div SecondsPerMinute

\* totalSeconds % 60
SecondsOf(t) == t % SecondsPerMinute

RECURSIVE TotalDuration(_)
\* steps.reduce((total, step) => total + step.duration, 0)
TotalDuration(st) ==
    IF st = <<>> THEN 0 ELSE Head(st).duration + TotalDuration(Tail(st))

RECURSIVE StoredDuration(_)
\* total duration of the steps of all presets of a collection
StoredDuration(ps) ==
    IF ps = <<>> THEN 0
    ELSE TotalDuration(Head(ps).steps) + StoredDuration(Tail(ps))

\* steps[i] with the source's 0-based index
StepAt(st, i) == st[i + 1]

\* list.filter(x => x.id !== id), lines 427 and 455.  An id is Date.now() at
\* creation (lines 415, 437), so the ids of a list are distinct and the
\* filter drops exactly the element that carries the id: the model names an
\* element by its position k, and writes 0 for an id no element carries
FilterOutId(list, k) ==
    [i \in 1..(Len(list) - (IF k \in 1..Len(list) THEN 1 ELSE 0)) |->
        IF i < k \/ k = 0 THEN list[i] ELSE list[i + 1]]

\* the component state as one record (the values a render's closures capture)
Cur == [inputHours |-> inputHours, inputMinutes |-> inputMinutes,
        inputSeconds |-> inputSeconds,
        displayHours |-> displayHours, displayMinutes |-> displayMinutes,
        displaySeconds |-> displaySeconds,
        steps |-> steps, isRunning |-> isRunning,
        currentStepIndex |-> currentStepIndex, remainingTime |-> remainingTime,
        isMainTimerRunning |-> isMainTimerRunning,
        mainTimerRemainingTime |-> mainTimerRemainingTime,
        isPaused |-> isPaused, presets |-> presets,
        isAlarmPlaying |-> isAlarmPlaying, isUsingSteps |-> isUsingSteps,
        alarmTimeout |-> alarmTimeout,
        alarmDeadline |-> alarmDeadline, pendingTimeouts |-> pendingTimeouts,
        liveIntervals |-> liveIntervals, storage |-> storage,
        alarms |-> 0, wheel |-> <<>>]

\* engine status of a state record: the interval of lines 463-464 exists
\* exactly when isMainTimerRunning && !isPaused; the UI shows Resume when
\* isPaused (line 536)
StatusOf(s) ==
    IF s.isPaused THEN "paused"
    ELSE IF s.isMainTimerRunning THEN "running"
    ELSE "idle"

Status == StatusOf(Cur)

\* inputHours * 3600 + inputMinutes * 60 + inputSeconds of a state record
InputTotal(s) == ToSeconds(s.inputHours, s.inputMinutes, s.inputSeconds)

\* setDisplayHours / setDisplayMinutes / setDisplaySeconds from a total
ShowTotal(s, t) ==
    [s EXCEPT !.displayHours = HoursOf(t), !.displayMinutes = MinutesOf(t),
              !.displaySeconds = SecondsOf(t)]

\* setDisplayHours(inputHours) etc.
ShowInput(s, c) ==
    [s EXCEPT !.displayHours = c.inputHours, !.displayMinutes = c.inputMinutes,
              !.displaySeconds = c.inputSeconds]

\* ---------------------------------------------------------------- storage
\* The item is absent ("none"), the text savePresetsToStorage wrote ("json",
\* with the collection it encodes: JSON.stringify and JSON.parse are inverse
\* on arrays of objects of numbers and strings), or a text that is no JSON
\* ("garbage").

\* what the browser may hold when the page is opened
StoredAtStartup ==
    { [kind |-> "none", presets |-> <<>>],
      [kind |-> "garbage", presets |-> <<>>] }

\* loadPresetsFromStorage, lines 18-21: JSON.parse throws a SyntaxError on a
\* text that is no JSON, and nothing catches it
loadPresetsFromStorage(st) ==
    IF st.kind = "none" THEN [threw |-> FALSE, value |-> <<>>]
    ELSE IF st.kind = "json" THEN [threw |-> FALSE, value |-> st.presets]
    ELSE [threw |-> TRUE, value |-> <<>>]

\* savePresetsToStorage, lines 23-25
savePresetsToStorage(s, ps) ==
    [s EXCEPT !.storage = [kind |-> "json", presets |-> ps]]

\* ------------------------------------------------------------------ alarm

\* clearTimeout(alarmTimeoutRef.current), lines 249-251, 259-261, 272-274:
\* a no-op on a timeout that has fired or was cleared before
clearAlarmTimeout(s) ==
    [s EXCEPT !.alarmTimeout = FALSE, !.alarmDeadline = 0,
              !.pendingTimeouts = IF s.alarmTimeout THEN @ - 1 ELSE @]

\* playAlarm with a slip: a timeout that is pending is neither cleared nor
\* replaced
playAlarm_keepsDeadline(s) ==
    IF s.alarmTimeout
    THEN [s EXCEPT !.isAlarmPlaying = TRUE, !.alarms = @ + 1]
    ELSE [s EXCEPT !.isAlarmPlaying = TRUE, !.alarmTimeout = TRUE,
                   !.alarmDeadline = AlarmSeconds,
                   !.pendingTimeouts = @ + 1,
                   !.alarms = @ + 1]

\* playAlarm, lines 245-265 (the audio element exists after mount)
playAlarm(s) ==
    [clearAlarmTimeout(s) EXCEPT !.isAlarmPlaying = TRUE,
                                 !.alarmTimeout = TRUE,
                                 !.alarmDeadline = AlarmSeconds,
                                 !.pendingTimeouts = @ + 1,
                                 !.alarms = @ + 1]

\* stopAlarm, lines 267-276
stopAlarm(s) ==
    [clearAlarmTimeout(s) EXCEPT !.isAlarmPlaying = FALSE]

\* resetSteps, lines 233-243; c is the render the closure was created in
resetSteps(s, c) ==
    LET s1 == [s EXCEPT !.currentStepIndex = 0]
    IN  IF Len(c.steps) > 0
        THEN ShowTotal([s1 EXCEPT !.remainingTime = StepAt(c.steps, 0).duration,
                                  !.mainTimerRemainingTime = TotalDuration(c.steps)],
                       TotalDuration(c.steps))
        ELSE s1

\* ---------------------------------------------------------------- effects

\* CountdownDisplay's effect, lines 93-102: c is the previous render (its
\* display is what prevTimeRef holds), s the render being committed
CountdownDisplayEffect(c, s) ==
    IF /\ s.isMainTimerRunning /\ ~s.isPaused
       /\ ToSeconds(s.displayHours, s.displayMinutes, s.displaySeconds) = 0
       /\ c.displayHours = 0 /\ c.displayMinutes = 0 /\ c.displaySeconds = 1
    THEN playAlarm(s)
    ELSE s

\* the re-seed effect of lines 217-231; it runs when steps or isUsingSteps
\* changed (stepsSet: setSteps was called with a new array)
ReseedEffect(c, s, stepsSet) ==
    IF /\ (stepsSet \/ s.isUsingSteps # c.isUsingSteps)
       /\ Len(s.steps) > 0
       /\ s.isUsingSteps
    THEN ShowTotal([s EXCEPT !.mainTimerRemainingTime = TotalDuration(s.steps)],
                   TotalDuration(s.steps))
    ELSE s

\* the display effect of lines 508-518: s is the committed render, c the one
\* before it, t the state the effect's set-state calls are applied to
DisplayEffect(c, s, t) ==
    IF s.mainTimerRemainingTime # c.mainTimerRemainingTime
       /\ s.mainTimerRemainingTime > 0
    THEN ShowTotal(t, s.mainTimerRemainingTime)
    ELSE t

\* the condition of line 463 under which a run of the tick effect sets an
\* interval
SetsInterval(s) == s.isMainTimerRunning /\ ~s.isPaused

\* the dependencies of the tick effect, line 506 (steps by its contents)
TickDeps(s) ==
    <<s.isMainTimerRunning, s.isPaused, s.currentStepIndex, s.steps,
      s.isUsingSteps>>

\* the tick effect with a slip: its cleanup is missing
TickEffect_noCleanup(c, s, stepsSet) ==
    IF stepsSet \/ TickDeps(s) # TickDeps(c)
    THEN [s EXCEPT !.liveIntervals =
                       @ + (IF SetsInterval(s) THEN 1 ELSE 0)]
    ELSE s

\* the tick effect of lines 460-506 around its callback: when a dependency
\* changed, the cleanup of line 505 clears the interval its last run set, if
\* it set one, and the effect runs again
TickEffect(c, s, stepsSet) ==
    IF stepsSet \/ TickDeps(s) # TickDeps(c)
    THEN [s EXCEPT !.liveIntervals =
                       @ - (IF SetsInterval(c) THEN 1 ELSE 0)
                         + (IF SetsInterval(s) THEN 1 ELSE 0)]
    ELSE s

\* the commits that follow a handler: c is the render the handler ran in, s
\* the state after the handler's set-state calls
Settle(c, s, stepsSet) ==
    LET a  == CountdownDisplayEffect(c, s)
        r  == ReseedEffect(c, s, stepsSet)
        \* effects of one commit run in declaration order; later calls win
        s2 == DisplayEffect(c, s,
                [a EXCEPT !.mainTimerRemainingTime = r.mainTimerRemainingTime,
                          !.displayHours = r.displayHours,
                          !.displayMinutes = r.displayMinutes,
                          !.displaySeconds = r.displaySeconds])
    IN  TickEffect(c, DisplayEffect(s, s2, s2), stepsSet)

\* --------------------------------------------------------------- handlers
\* Each <handler>Updates(c) is the state after the handler's set-state calls,
\* the handler reading the values of the render c it was created in.

\* startMainTimer, lines 324-352
startMainTimerUpdates(c) ==
    LET totalInputSeconds == InputTotal(c)
        s1 == IF Len(c.steps) > 0
              THEN LET u == [c EXCEPT !.isUsingSteps = TRUE]
                   IN  IF c.isPaused
                       THEN [u EXCEPT !.isPaused = FALSE,
                                      !.isMainTimerRunning = TRUE,
                                      !.isRunning = TRUE]
                       ELSE IF ~c.isMainTimerRunning
                       THEN [u EXCEPT !.isMainTimerRunning = TRUE,
                                      !.isRunning = TRUE,
                                      !.currentStepIndex = 0,
                                      !.remainingTime = StepAt(c.steps, 0).duration,
                                      !.isPaused = FALSE]
                       ELSE u
              ELSE IF totalInputSeconds > 0
              THEN LET u == [c EXCEPT !.isUsingSteps = FALSE]
                   IN  IF ~c.isMainTimerRunning
                       THEN ShowInput(
                              [u EXCEPT !.mainTimerRemainingTime = totalInputSeconds,
                                        !.isMainTimerRunning = TRUE,
                                        !.isPaused = FALSE], c)
                       ELSE u
              ELSE c
    IN  stopAlarm(s1)

\* pauseMainTimer, lines 354-358
pauseMainTimerUpdates(c) ==
    [c EXCEPT !.isPaused = TRUE, !.isMainTimerRunning = FALSE,
              !.isRunning = FALSE]

\* resumeMainTimer with a slip: it re-seeds the step as a fresh start does
\* (lines 336-337)
resumeMainTimerUpdates_restart(c) ==
    [c EXCEPT !.isPaused = FALSE, !.isMainTimerRunning = TRUE,
              !.isRunning = TRUE, !.currentStepIndex = 0,
              !.remainingTime = IF Len(c.steps) > 0
                                THEN StepAt(c.steps, 0).duration ELSE @]

\* resumeMainTimer, lines 360-364
resumeMainTimerUpdates(c) ==
    [c EXCEPT !.isPaused = FALSE, !.isMainTimerRunning = TRUE,
              !.isRunning = TRUE]

\* resetMainTimer with a slip: the call of stopAlarm is missing
resetMainTimerUpdates_keepsAlarm(c) ==
    LET s1 == [c EXCEPT !.isMainTimerRunning = FALSE, !.isRunning = FALSE,
                        !.currentStepIndex = 0]
        s2 == IF c.isUsingSteps /\ Len(c.steps) > 0
              THEN [s1 EXCEPT !.remainingTime = StepAt(c.steps, 0).duration,
                              !.mainTimerRemainingTime = TotalDuration(c.steps)]
              ELSE ShowInput([s1 EXCEPT !.mainTimerRemainingTime = InputTotal(c)], c)
    IN  [s2 EXCEPT !.isPaused = FALSE]

\* resetMainTimer, lines 366-383
resetMainTimerUpdates(c) ==
    LET s1 == [c EXCEPT !.isMainTimerRunning = FALSE, !.isRunning = FALSE,
                        !.currentStepIndex = 0]
        s2 == IF c.isUsingSteps /\ Len(c.steps) > 0
              THEN [s1 EXCEPT !.remainingTime = StepAt(c.steps, 0).duration,
                              !.mainTimerRemainingTime = TotalDuration(c.steps)]
              ELSE ShowInput([s1 EXCEPT !.mainTimerRemainingTime = InputTotal(c)], c)
    IN  stopAlarm([s2 EXCEPT !.isPaused = FALSE])

\* that updater with a slip: decrementing 0 stays at 0
WrapField_clamps(prev, delta, wrap) ==
    LET newValue == prev + delta
    IN  IF newValue >= wrap THEN 0
        ELSE IF newValue < 0 THEN 0
        ELSE newValue

\* the wrap-around updater of one field, lines 283-288, 291-296, 299-304
WrapField(prev, delta, wrap) ==
    LET newValue == prev + delta
    IN  IF newValue >= wrap THEN 0
        ELSE IF newValue < 0 THEN wrap - 1
        ELSE newValue

\* handleTimeChange, lines 278-315
handleTimeChangeUpdates(c, type, delta) ==
    IF c.isMainTimerRunning THEN c
    ELSE LET s1 == CASE type = "hours" ->
                        [c EXCEPT !.inputHours = WrapField(@, delta, HoursWrap)]
                     [] type = "minutes" ->
                        [c EXCEPT !.inputMinutes = WrapField(@, delta, MinutesWrap)]
                     [] type = "seconds" ->
                        [c EXCEPT !.inputSeconds = WrapField(@, delta, SecondsWrap)]
         IN  IF ~c.isUsingSteps
             THEN ShowInput([s1 EXCEPT !.mainTimerRemainingTime = InputTotal(c)], c)
             ELSE s1

\* clearTimeInput, lines 385-395
clearTimeInputUpdates(c) ==
    LET s1 == [c EXCEPT !.inputHours = 0, !.inputMinutes = 0, !.inputSeconds = 0]
    IN  IF ~c.isUsingSteps
        THEN [s1 EXCEPT !.displayHours = 0, !.displayMinutes = 0,
                        !.displaySeconds = 0, !.mainTimerRemainingTime = 0]
        ELSE s1

\* clearAllSteps, lines 397-409
clearAllStepsUpdates(c) ==
    IF ~c.isRunning
    THEN ShowInput([c EXCEPT !.steps = <<>>, !.isUsingSteps = FALSE,
                             !.currentStepIndex = 0, !.remainingTime = 0,
                             !.mainTimerRemainingTime = InputTotal(c)], c)
    ELSE c

\* addStep with a slip: the test totalSeconds > 0 is missing
addStepUpdates_noGuard(c) ==
    [c EXCEPT !.steps = Append(c.steps, [duration |-> InputTotal(c)]),
              !.isUsingSteps = TRUE]

\* addStep, lines 411-423
addStepUpdates(c) ==
    LET totalSeconds == InputTotal(c)
    IN  IF totalSeconds > 0
        THEN [c EXCEPT !.steps = Append(c.steps,
                                   [duration |-> totalSeconds]),
                       !.isUsingSteps = TRUE]
        ELSE c

\* deleteStep with a slip: the mode is kept when the last step goes
deleteStepUpdates_keepsMode(c, stepId) ==
    IF c.isRunning THEN c
    ELSE [c EXCEPT !.steps = FilterOutId(c.steps, stepId)]

\* deleteStep, lines 425-432
deleteStepUpdates(c, stepId) ==
    IF c.isRunning THEN c
    ELSE LET newSteps == FilterOutId(c.steps, stepId)
         IN  IF Len(newSteps) = 0
             THEN [c EXCEPT !.steps = newSteps, !.isUsingSteps = FALSE]
             ELSE [c EXCEPT !.steps = newSteps]

\* savePreset, lines 434-446
savePresetUpdates(c) ==
    IF Len(c.steps) > 0
    THEN LET updatedPresets == Append(c.presets, [steps |-> c.steps])
         IN  savePresetsToStorage([c EXCEPT !.presets = updatedPresets],
                                  updatedPresets)
    ELSE c

\* loadPreset, lines 448-452
loadPresetUpdates(c, preset) ==
    [c EXCEPT !.steps = preset.steps, !.isUsingSteps = TRUE]

\* deletePreset, lines 454-458
deletePresetUpdates(c, presetId) ==
    LET updatedPresets == FilterOutId(c.presets, presetId)
    IN  savePresetsToStorage([c EXCEPT !.presets = updatedPresets],
                             updatedPresets)

\* ------------------------------------------------------------------- tick

\* value returned by the setRemainingTime updater, lines 477-491
remainingTimeUpdater(c) ==
    IF c.remainingTime <= 1
    THEN IF c.currentStepIndex < Len(c.steps) - 1
         THEN StepAt(c.steps, c.currentStepIndex + 1).duration
         ELSE StepAt(c.steps, 0).duration
    ELSE c.remainingTime - 1

\* those calls with a slip: the step index is not advanced
remainingTimeUpdaterCalls_noAdvance(s, c) ==
    IF c.remainingTime <= 1
    THEN LET a == playAlarm(s)
         IN  IF c.currentStepIndex < Len(c.steps) - 1
             THEN a
             ELSE resetSteps([a EXCEPT !.isRunning = FALSE,
                                       !.currentStepIndex = 0], c)
    ELSE s

\* set-state calls made inside the setRemainingTime updater, lines 478-488
remainingTimeUpdaterCalls(s, c) ==
    IF c.remainingTime <= 1
    THEN LET a == playAlarm(s)
         IN  IF c.currentStepIndex < Len(c.steps) - 1
             THEN [a EXCEPT !.currentStepIndex = @ + 1]
             ELSE resetSteps([a EXCEPT !.isRunning = FALSE,
                                       !.currentStepIndex = 0], c)
    ELSE s

\* that value with a slip: a second is not taken off
mainTimerUpdater_noDecrement(c) ==
    IF c.mainTimerRemainingTime <= 1
    THEN TotalDuration(c.steps)
    ELSE c.mainTimerRemainingTime

\* value returned by the sequential setMainTimerRemainingTime updater,
\* lines 466-475
mainTimerUpdater(c) ==
    IF c.mainTimerRemainingTime <= 1
    THEN TotalDuration(c.steps)
    ELSE c.mainTimerRemainingTime - 1

\* those calls with a slip: setIsMainTimerRunning(false) is missing
mainTimerUpdaterCalls_keepsRunning(s, c) ==
    IF c.mainTimerRemainingTime <= 1
    THEN resetSteps(playAlarm([s EXCEPT !.isRunning = FALSE]), c)
    ELSE s

\* set-state calls made inside that updater, lines 467-472
mainTimerUpdaterCalls(s, c) ==
    IF c.mainTimerRemainingTime <= 1
    THEN resetSteps(playAlarm([s EXCEPT !.isMainTimerRunning = FALSE,
                                        !.isRunning = FALSE]), c)
    ELSE s

\* the interval callback in sequential mode, lines 465-491
sequentialTick(c) ==
    LET r1 == [c EXCEPT !.remainingTime = remainingTimeUpdater(c),
                        !.mainTimerRemainingTime = mainTimerUpdater(c)]
    IN  mainTimerUpdaterCalls(remainingTimeUpdaterCalls(r1, c), c)

\* the simple-mode callback with a slip: it stops one tick late (prev <= 0)
simpleTick_lateStop(c) ==
    IF c.mainTimerRemainingTime <= 0
    THEN playAlarm([c EXCEPT !.isMainTimerRunning = FALSE,
                             !.mainTimerRemainingTime = 0])
    ELSE [c EXCEPT !.mainTimerRemainingTime = @ - 1]

\* the interval callback in simple mode, lines 492-501
simpleTick(c) ==
    IF c.mainTimerRemainingTime <= 1
    THEN playAlarm([c EXCEPT !.isMainTimerRunning = FALSE,
                             !.mainTimerRemainingTime = 0])
    ELSE [c EXCEPT !.mainTimerRemainingTime = @ - 1]

\* the interval callback, lines 464-502
tickUpdates(c) ==
    IF c.isUsingSteps THEN sequentialTick(c) ELSE simpleTick(c)

\* ---------------------------------------------------------------- actions

\* a handler or callback of the mounted component ran: the program variables
\* take the values of the state record s
Install(s) ==
    /\ mounted /\ mounted' = mounted
    /\ storage' = s.storage
    /\ liveIntervals' = s.liveIntervals
    /\ inputHours' = s.inputHours
    /\ inputMinutes' = s.inputMinutes
    /\ inputSeconds' = s.inputSeconds
    /\ displayHours' = s.displayHours
    /\ displayMinutes' = s.displayMinutes
    /\ displaySeconds' = s.displaySeconds
    /\ steps' = s.steps
    /\ isRunning' = s.isRunning
    /\ currentStepIndex' = s.currentStepIndex
    /\ remainingTime' = s.remainingTime
    /\ isMainTimerRunning' = s.isMainTimerRunning
    /\ mainTimerRemainingTime' = s.mainTimerRemainingTime
    /\ isPaused' = s.isPaused
    /\ presets' = s.presets
    /\ isAlarmPlaying' = s.isAlarmPlaying
    /\ isUsingSteps' = s.isUsingSteps
    /\ alarmTimeout' = s.alarmTimeout
    /\ alarmDeadline' = s.alarmDeadline
    /\ pendingTimeouts' = s.pendingTimeouts

\* bookkeeping of the history variables for operation name ending in state s
Record(name, s) ==
    /\ op' = name
    /\ alarmsNow' = s.alarms
    /\ IF name = "start" /\ Status = "idle" /\ StatusOf(s) = "running"
       THEN runClean' = TRUE /\ runTicks' = 0 /\ runAlarms' = s.alarms
       ELSE IF name = "tick" /\ runClean
       THEN runClean' = TRUE /\ runTicks' = runTicks + 1
            /\ runAlarms' = runAlarms + s.alarms
       ELSE IF name \in {"alarmAutoStop", "elapse"}
       THEN UNCHANGED <<runClean, runTicks, runAlarms>>
       ELSE runClean' = FALSE /\ runTicks' = 0 /\ runAlarms' = 0
    /\ snap' = IF name = "pause" /\ Status = "running"
               THEN <<mainTimerRemainingTime, remainingTime, currentStepIndex>>
               ELSE IF name = "resume" /\ op = "pause" THEN snap
               ELSE <<>>
    /\ sinceTrigger' =
          IF s.alarms > 0 THEN 0
          ELSE IF name \in {"stopAlarm", "reset", "start"} \/ sinceTrigger < 0
          THEN -1
          ELSE IF name = "elapse" THEN sinceTrigger + 1
          ELSE IF name = "alarmAutoStop" THEN sinceTrigger + alarmDeadline
          ELSE sinceTrigger
    /\ runPlain' =
          IF name = "start" /\ Status = "idle" /\ StatusOf(s) = "running"
          THEN TRUE
          ELSE IF name \in {"tick", "pause", "resume", "alarmAutoStop", "elapse"}
          THEN runPlain
          ELSE FALSE
    /\ lastWheel' = IF Status = "idle" THEN s.wheel ELSE <<>>
    /\ prevEntry' = IF Status = "idle" /\ s.wheel # <<>>
                    THEN <<inputHours, inputMinutes, inputSeconds>>
                    ELSE <<>>

\* The handlers, callable in any state.

startMainTimer ==
    LET f == Settle(Cur, startMainTimerUpdates(Cur), FALSE)
    IN  Install(f) /\ Record("start", f)

pauseMainTimer ==
    LET f == Settle(Cur, pauseMainTimerUpdates(Cur), FALSE)
    IN  Install(f) /\ Record("pause", f)

resumeMainTimer ==
    LET f == Settle(Cur, resumeMainTimerUpdates(Cur), FALSE)
    IN  Install(f) /\ Record("resume", f)

resetMainTimer ==
    LET f == Settle(Cur, resetMainTimerUpdates(Cur), FALSE)
    IN  Install(f) /\ Record("reset", f)

handleTimeChange(type, delta) ==
    LET f == Settle(Cur, handleTimeChangeUpdates(Cur, type, delta), FALSE)
    IN  /\ Install(f)
        /\ Record("adjust", [f EXCEPT !.wheel = <<type, delta>>])

clearTimeInput ==
    LET f == Settle(Cur, clearTimeInputUpdates(Cur), FALSE)
    IN  Install(f) /\ Record("clear", f)

\* setSteps is called, with a new array, when the guard of line 398 passes
clearAllSteps ==
    LET f == Settle(Cur, clearAllStepsUpdates(Cur), ~isRunning)
    IN  Install(f) /\ Record("clearSteps", f)

\* the user keeps the sequence within MaxTotal seconds
addStep ==
    LET f == Settle(Cur, addStepUpdates(Cur), InputTotal(Cur) > 0)
    IN  /\ TotalDuration(f.steps) <= MaxTotal
        /\ Install(f) /\ Record("append", f)

deleteStep(stepId) ==
    LET f == Settle(Cur, deleteStepUpdates(Cur, stepId), ~isRunning)
    IN  Install(f) /\ Record("remove", f)

\* the user keeps the collection within MaxStored seconds of steps
savePreset ==
    LET f == Settle(Cur, savePresetUpdates(Cur), FALSE)
    IN  /\ StoredDuration(f.presets) <= MaxStored
        /\ Install(f) /\ Record("savePreset", f)

loadPreset(preset) ==
    LET f == Settle(Cur, loadPresetUpdates(Cur, preset), TRUE)
    IN  Install(f) /\ Record("loadPreset", f)

deletePreset(presetId) ==
    LET f == Settle(Cur, deletePresetUpdates(Cur, presetId), FALSE)
    IN  Install(f) /\ Record("deletePreset", f)

\* The controls the rendered page offers, lines 535-727, and the timers.

\* the Start / Pause button, lines 536-555
StartPauseButton ==
    /\ ~isPaused
    /\ ~(Len(steps) = 0 /\ inputHours = 0 /\ inputMinutes = 0 /\ inputSeconds = 0)
    /\ IF isMainTimerRunning THEN pauseMainTimer ELSE startMainTimer

\* the Resume button, lines 556-563
ResumeButton ==
    /\ isPaused
    /\ resumeMainTimer

\* the Reset button, lines 564-569
ResetButton == resetMainTimer

\* the alarm button, lines 570-577, calls stopAlarm
AlarmButton ==
    /\ isAlarmPlaying
    /\ LET f == Settle(Cur, stopAlarm(Cur), FALSE)
       IN  Install(f) /\ Record("stopAlarm", f)

\* the Clear Steps button, lines 578-585
ClearStepsButton ==
    /\ Len(steps) > 0 /\ ~isRunning
    /\ clearAllSteps

\* the wheel of a TimeUnit, lines 43-47 and 591-608, turned by one notch
AnyWheel ==
    \E type \in {"hours", "minutes", "seconds"}, delta \in {-1, 1} :
        handleTimeChange(type, delta)

\* the wheels, turned by a user who keeps the entry within MaxEntry seconds
TimeWheel ==
    \E type \in {"hours", "minutes", "seconds"}, delta \in {-1, 1} :
        /\ InputTotal(handleTimeChangeUpdates(Cur, type, delta)) <= MaxEntry
        /\ handleTimeChange(type, delta)

\* the Add item button, lines 620-625
AddItemButton == addStep

\* the Clear button, lines 626-631
ClearButton == clearTimeInput

\* Save as Preset, lines 637-643, and the modal's Save, lines 154-164
SavePresetButton ==
    /\ Len(steps) > 0
    /\ savePreset

\* the Load button of a listed preset, lines 669-674
LoadButton == \E i \in 1..Len(presets) : loadPreset(presets[i])

\* the Delete button of a listed preset, lines 675-680
DeletePresetButton == \E i \in 1..Len(presets) : deletePreset(i)

\* the X of a listed step, lines 709-716
DeleteStepButton ==
    /\ ~isRunning
    /\ \E k \in 1..Len(steps) : deleteStep(k)

\* the time left to the deadline passes, the timeout of lines 262-264 fires
\* and calls stopAlarm
alarmAutoStop ==
    /\ alarmTimeout
    /\ LET f == Settle(Cur, stopAlarm(Cur), FALSE)
       IN  Install(f) /\ Record("alarmAutoStop", f)

\* one second passes in which no callback runs.  A timeout that is due fires
\* before more time passes; the seconds are counted while a timeout is
\* pending and up to one second after the deadline of the last trigger
elapse ==
    /\ alarmTimeout => alarmDeadline > 0
    /\ alarmTimeout \/ sinceTrigger \in 0..AlarmSeconds
    /\ LET f == [Cur EXCEPT !.alarmDeadline = IF alarmTimeout THEN @ - 1 ELSE @]
       IN  Install(f) /\ Record("elapse", f)

\* an interval of lines 464-502 fires; its callback is the one of the render
\* the tick effect ran in last, whose captured values are the current ones
tick ==
    /\ liveIntervals > 0
    /\ LET f == Settle(Cur, tickUpdates(Cur), FALSE)
       IN  Install(f) /\ Record("tick", f)

Init ==
    /\ inputHours = 0 /\ inputMinutes = 0 /\ inputSeconds = 0
    /\ displayHours = 0 /\ displayMinutes = 0 /\ displaySeconds = 0
    /\ steps = <<>>
    /\ isRunning = FALSE
    /\ currentStepIndex = 0
    /\ remainingTime = 0
    /\ isMainTimerRunning = FALSE
    /\ mainTimerRemainingTime = 0
    /\ isPaused = FALSE
    \* the preset load effect of lines 196-199 has run; an error thrown by an
    \* effect is caught by no error boundary and React unmounts the tree
    /\ storage \in StoredAtStartup
    /\ presets = loadPresetsFromStorage(storage).value
    /\ mounted = ~loadPresetsFromStorage(storage).threw
    /\ isAlarmPlaying = FALSE
    /\ isUsingSteps = FALSE
    /\ alarmTimeout = FALSE
    /\ alarmDeadline = 0
    /\ pendingTimeouts = 0
    /\ liveIntervals = 0
    /\ op = "mount"
    /\ alarmsNow = 0
    /\ runClean = FALSE
    /\ runTicks = 0
    /\ runAlarms = 0
    /\ snap = <<>>
    /\ sinceTrigger = -1
    /\ lastWheel = <<>>
    /\ prevEntry = <<>>
    /\ runPlain = FALSE

\* the program as its page drives it
Next ==
    \/ StartPauseButton
    \/ ResumeButton
    \/ ResetButton
    \/ AlarmButton
    \/ ClearStepsButton
    \/ TimeWheel
    \/ AddItemButton
    \/ ClearButton
    \/ SavePresetButton
    \/ LoadButton
    \/ DeletePresetButton
    \/ DeleteStepButton
    \/ alarmAutoStop
    \/ tick

Spec == Init /\ [][Next]_vars

\* the program, with start() also invoked in states whose page offers no
\* Start button
NextStartAnywhere ==
    \/ Next
    \/ startMainTimer

SpecStartAnywhere == Init /\ [][NextStartAnywhere]_vars

\* the program, with pause() and resume() also invoked in states whose page
\* offers no Pause or no Resume button
NextPauseResumeAnywhere ==
    \/ Next
    \/ pauseMainTimer
    \/ resumeMainTimer

SpecPauseResumeAnywhere == Init /\ [][NextPauseResumeAnywhere]_vars

\* the program with the passing of time between its callbacks, for a user who
\* leaves the presets alone (no handler of a preset touches the alarm).  The
\* interval is restarted whenever the tick effect re-runs (line 506), so a
\* tick is not tied to a whole number of elapsed seconds
NextTimed ==
    \/ StartPauseButton
    \/ ResumeButton
    \/ ResetButton
    \/ AlarmButton
    \/ ClearStepsButton
    \/ TimeWheel
    \/ AddItemButton
    \/ ClearButton
    \/ DeleteStepButton
    \/ alarmAutoStop
    \/ tick
    \/ elapse

SpecTimed == Init /\ [][NextTimed]_vars

\* the program, with savePreset also invoked in states whose page disables
\* Save as Preset
NextSaveAnywhere ==
    \/ Next
    \/ savePreset

SpecSaveAnywhere == Init /\ [][NextSaveAnywhere]_vars

\* the time entry alone: the user turns the wheels, over their whole range
NextEntry == AnyWheel

SpecEntry == Init /\ [][NextEntry]_vars

\* every handler invoked in every state
NextAnywhere ==
    \/ Next
    \/ startMainTimer
    \/ pauseMainTimer
    \/ resumeMainTimer
    \/ clearAllSteps
    \/ savePreset
    \/ \E k \in 0..Len(steps) : deleteStep(k)
    \/ deletePreset(0)

SpecAnywhere == Init /\ [][NextAnywhere]_vars

\* ----------------------------------------------------------------- claims

\* the time entry in seconds (toDurationSeconds)
EntrySeconds == ToSeconds(inputHours, inputMinutes, inputSeconds)

\* the counters of the engine
Counters == <<mainTimerRemainingTime, remainingTime, currentStepIndex>>

\* C1: simple mode.  After start() from idle with an empty step sequence and
\* an entry of T > 0 seconds, and nothing but ticks since: before the T-th
\* tick the engine is running, T minus the ticks remain and the alarm has
\* not been triggered; after the T-th tick the engine is idle, 0 remains and
\* the alarm has been triggered exactly once; there is no further tick.
C1_SimpleRunEndsWithOneAlarm ==
    (runClean /\ steps = <<>>) =>
        /\ EntrySeconds > 0
        /\ runTicks <= EntrySeconds
        /\ runTicks < EntrySeconds =>
              /\ Status = "running"
              /\ mainTimerRemainingTime = EntrySeconds - runTicks
              /\ runAlarms = 0
        /\ runTicks = EntrySeconds =>
              /\ Status = "idle"
              /\ mainTimerRemainingTime = 0
              /\ runAlarms = 1

\* a simple run of two seconds has just ended with its alarm
C1_Witness ==
    /\ runClean /\ steps = <<>> /\ op = "tick"
    /\ EntrySeconds = 2 /\ runTicks = 2
    /\ Status = "idle" /\ alarmsNow = 1 /\ isAlarmPlaying

\* C2: sequential mode.  When a run that saw nothing but ticks since start()
\* has returned to idle, the alarm has been triggered exactly len(steps)
\* times, and the tick that ended the run triggered it exactly once.
C2_OneAlarmPerStep ==
    (runClean /\ steps # <<>> /\ Status = "idle") =>
        /\ runAlarms = Len(steps)
        /\ op = "tick" => alarmsNow = 1

\* C3: sequential auto-reset.  After start() from idle with a non-empty step
\* sequence and nothing but ticks since, the engine runs until the
\* totalDuration()-th tick; after that tick it is idle with activeStepIndex 0,
\* remainingStep = steps[0].duration and remainingOverall = totalDuration().
C3_SequentialRunAutoResets ==
    (runClean /\ steps # <<>>) =>
        /\ runTicks <= TotalDuration(steps)
        /\ runTicks < TotalDuration(steps) => Status = "running"
        /\ runTicks = TotalDuration(steps) =>
              /\ Status = "idle"
              /\ currentStepIndex = 0
              /\ remainingTime = StepAt(steps, 0).duration
              /\ mainTimerRemainingTime = TotalDuration(steps)

\* a run of a two-step sequence has just completed
C3_Witness ==
    /\ runClean /\ Len(steps) = 2 /\ op = "tick"
    /\ runTicks = TotalDuration(steps)
    /\ Status = "idle" /\ mainTimerRemainingTime = 2 /\ remainingTime = 1

\* C4: step advance.  In a run that saw nothing but ticks since start(), the
\* tick that takes remainingStep of a non-last step i from 1 to 0 while more
\* than one second of the whole run remains triggers the alarm once, makes
\* activeStepIndex i+1 and remainingStep steps[i+1].duration, and leaves the
\* engine running.
C4_StepAdvance ==
    [][ ( /\ op' = "tick" /\ runClean /\ isUsingSteps
          /\ remainingTime = 1
          /\ currentStepIndex < Len(steps) - 1
          /\ mainTimerRemainingTime > 1 )
        => ( /\ alarmsNow' = 1
             /\ currentStepIndex' = currentStepIndex + 1
             /\ remainingTime' = StepAt(steps, currentStepIndex + 1).duration
             /\ Status' = "running" ) ]_vars

\* the first step of a two-step run has just ended
C4_Witness ==
    /\ runClean /\ op = "tick" /\ runTicks = 1 /\ Len(steps) = 2
    /\ currentStepIndex = 1 /\ Status = "running" /\ alarmsNow = 1

\* C5: after reset() the engine is idle, activeStepIndex is 0, the counters
\* are those start() would seed (sequence non-empty: remainingStep =
\* steps[0].duration and remainingOverall = totalDuration(); empty:
\* remainingOverall = toDurationSeconds()), the alarm is silent and no
\* auto-stop deadline is pending.
C5_ResetReseeds ==
    op = "reset" =>
        /\ Status = "idle"
        /\ currentStepIndex = 0
        /\ IF steps # <<>>
           THEN /\ isUsingSteps
                /\ remainingTime = StepAt(steps, 0).duration
                /\ mainTimerRemainingTime = TotalDuration(steps)
           ELSE /\ ~isUsingSteps
                /\ mainTimerRemainingTime = EntrySeconds
        /\ ~isAlarmPlaying
        /\ ~alarmTimeout

\* reset() has re-seeded a two-step sequence
C5_Witness ==
    /\ op = "reset" /\ Len(steps) = 2
    /\ mainTimerRemainingTime = 2 /\ remainingTime = 1

\* C6: pause() on a running engine immediately followed by resume() leaves
\* remainingOverall, remainingStep and activeStepIndex as they were before
\* the pair, and the engine is running again.
C6_PauseResumeKeepsCounters ==
    (op = "resume" /\ snap # <<>>) =>
        /\ Counters = snap
        /\ Status = "running"

\* a sequential run was paused in its second step and resumed
C6_Witness ==
    /\ op = "resume" /\ snap # <<>>
    /\ isUsingSteps /\ currentStepIndex = 1 /\ remainingTime = 1

\* C7: start() invoked while the engine is running or paused leaves status,
\* mode, remainingOverall, remainingStep and activeStepIndex unchanged.
C7_StartOnlyFromIdle ==
    [][ (op' = "start" /\ Status # "idle")
        => ( /\ Status' = Status
             /\ isUsingSteps' = isUsingSteps
             /\ Counters' = Counters ) ]_vars

\* C8: pause() invoked when the engine is not running, and resume() invoked
\* when it is not paused, leave status and all counters unchanged.
C8_PauseResumeGuarded ==
    [][ ( \/ (op' = "pause" /\ Status # "running")
          \/ (op' = "resume" /\ Status # "paused") )
        => ( /\ Status' = Status
             /\ Counters' = Counters ) ]_vars

\* C9: in every step that changes hours, minutes or seconds of the time
\* entry the engine is idle, and adjust and clear invoked while it is
\* running or paused leave the entry and remainingOverall unchanged.
C9_EntryMutableOnlyWhileIdle ==
    [][ /\ (<<inputHours, inputMinutes, inputSeconds>>'
               # <<inputHours, inputMinutes, inputSeconds>>) => Status = "idle"
        /\ (op' \in {"adjust", "clear"} /\ Status # "idle")
             => /\ <<inputHours, inputMinutes, inputSeconds>>'
                     = <<inputHours, inputMinutes, inputSeconds>>
                /\ mainTimerRemainingTime' = mainTimerRemainingTime ]_vars

\* C10: append invoked while the engine is running leaves the step sequence,
\* the mode, remainingOverall, remainingStep and activeStepIndex unchanged.
C10_AppendRejectedWhileRunning ==
    [][ (op' = "append" /\ Status = "running")
        => ( /\ steps' = steps
             /\ isUsingSteps' = isUsingSteps
             /\ Counters' = Counters ) ]_vars

\* C11: remove(stepId) of a step present in the sequence, invoked while the
\* engine is idle, removes that step; invoked while the engine is running it
\* leaves the sequence unchanged.
C11_RemoveRejectedOnlyWhileRunning ==
    [][ (op' = "remove" /\ steps # <<>>)
        => ( /\ Status = "idle" =>
                  \E k \in 1..Len(steps) : steps' = FilterOutId(steps, k)
             /\ Status = "running" => steps' = steps ) ]_vars

\* C12: a structural change of the step sequence made while the engine is
\* idle (append, remove, clear all, load preset) leaves the counters at what
\* start() would seed: remainingOverall = totalDuration() and remainingStep =
\* steps[0].duration if the new sequence is non-empty, remainingOverall =
\* toDurationSeconds() if it is empty.
C12_IdleEditReseeds ==
    [][ ( /\ op' \in {"append", "remove", "clearSteps", "loadPreset"}
          /\ Status = "idle"
          /\ steps' # steps )
        => IF steps' # <<>>
           THEN /\ mainTimerRemainingTime' = TotalDuration(steps')
                /\ remainingTime' = StepAt(steps', 0).duration
           ELSE mainTimerRemainingTime' = EntrySeconds' ]_vars

\* C13: loading a preset while the engine is running leaves the live step
\* sequence, activeStepIndex, remainingStep and remainingOverall unchanged.
C13_LoadRejectedWhileRunning ==
    [][ (op' = "loadPreset" /\ Status = "running")
        => ( /\ steps' = steps
             /\ Counters' = Counters ) ]_vars

\* C14: start() with an empty step sequence and a time entry of 00:00:00
\* leaves the engine idle, and whenever the engine is running
\* remainingOverall is at least 1.
C14_NoZeroDurationRun ==
    [][ /\ ( /\ op' = "start" /\ Status = "idle"
             /\ steps = <<>> /\ EntrySeconds = 0 ) => Status' = "idle"
        /\ Status' = "running" => mainTimerRemainingTime' >= 1 ]_vars

\* C15: at most one auto-stop timeout is pending; after a trigger, as long as
\* no handler has called stop() since (the alarm button, reset() and also
\* start()), the alarm sounds and the pending deadline is 60 seconds after
\* the most recent trigger, whatever an earlier trigger had set; at the
\* deadline the alarm sounds exactly as long as the timeout has not fired yet,
\* and after it the alarm is silent with no timeout pending.
C15_AlarmAutoStop ==
    /\ pendingTimeouts <= 1
    /\ alarmTimeout <=> pendingTimeouts = 1
    /\ sinceTrigger >= 0 =>
          /\ sinceTrigger < AlarmSeconds =>
                /\ isAlarmPlaying /\ alarmTimeout
                /\ alarmDeadline = AlarmSeconds - sinceTrigger
          /\ sinceTrigger = AlarmSeconds =>
                /\ isAlarmPlaying <=> alarmTimeout
                /\ alarmDeadline = 0
          /\ sinceTrigger > AlarmSeconds =>
                /\ ~isAlarmPlaying /\ ~alarmTimeout

\* 60 seconds after a trigger the timeout has fired and silenced the alarm
C15_Witness ==
    /\ op = "alarmAutoStop" /\ sinceTrigger = AlarmSeconds
    /\ ~isAlarmPlaying /\ ~alarmTimeout /\ pendingTimeouts = 0

\* C15 as stated: less than 60 seconds after the most recent trigger, every
\* operation other than stop() (the alarm button), reset() and the firing of
\* the deadline itself leaves the alarm sounding.
C15_SoundsUnlessStoppedOrReset ==
    [][ ( /\ sinceTrigger >= 0 /\ sinceTrigger < AlarmSeconds
          /\ op' \notin {"stopAlarm", "reset", "alarmAutoStop"} )
        => isAlarmPlaying' ]_vars

\* the value of a field of the time entry <<hours, minutes, seconds>>
FieldOf(entry, type) ==
    CASE type = "hours" -> entry[1]
      [] type = "minutes" -> entry[2]
      [] type = "seconds" -> entry[3]

\* the largest value of a field
MaxOf(type) ==
    CASE type = "hours" -> HoursWrap - 1
      [] type = "minutes" -> MinutesWrap - 1
      [] type = "seconds" -> SecondsWrap - 1

\* C16: the fields of the time entry stay within hours 0..23, minutes 0..59
\* and seconds 0..59; adjust on an idle engine changes its field only, by
\* delta, where incrementing the maximum gives 0 and decrementing 0 gives the
\* maximum; and adjust(delta) followed by adjust(-delta) on the same field
\* restores the entry.
C16_AdjustIsCyclic ==
    [][ LET entry == <<inputHours, inputMinutes, inputSeconds>>
            after == <<inputHours', inputMinutes', inputSeconds'>>
            type  == lastWheel'[1]
            delta == lastWheel'[2]
            v     == FieldOf(entry, type)
        IN  /\ after[1] \in 0..23 /\ after[2] \in 0..59 /\ after[3] \in 0..59
            /\ (op' = "adjust" /\ Status = "idle") =>
                  /\ lastWheel' # <<>>
                  /\ \A other \in {"hours", "minutes", "seconds"} \ {type} :
                        FieldOf(after, other) = FieldOf(entry, other)
                  /\ FieldOf(after, type) =
                        IF v = MaxOf(type) /\ delta = 1 THEN 0
                        ELSE IF v = 0 /\ delta = -1 THEN MaxOf(type)
                        ELSE v + delta
                  /\ (lastWheel = <<type, -delta>>) => after = prevEntry ]_vars

\* seconds were decremented from 0 to 59 and incremented back to 0
C16_Witness ==
    /\ op = "adjust" /\ lastWheel = <<"seconds", 1>>
    /\ prevEntry = <<23, 59, 59>>
    /\ <<inputHours, inputMinutes, inputSeconds>> = <<23, 59, 0>>

\* C17: when the stored preset collection fails to parse at startup, the
\* preset collection is empty, the engine is idle and the controls stay
\* operable.
C17_CorruptStoreTreatedAsEmpty ==
    (op = "mount" /\ loadPresetsFromStorage(storage).threw) =>
        /\ presets = <<>>
        /\ Status = "idle"
        /\ mounted

\* C18: in sequential mode remainingOverall >= remainingStep.
C18_OverallCoversStep ==
    isUsingSteps => mainTimerRemainingTime >= remainingTime

\* C19: the engine is in sequential mode exactly when the step sequence is
\* non-empty.
C19_ModeFollowsSequence ==
    isUsingSteps <=> steps # <<>>

\* the last step of a sequence was removed and the engine is in simple mode
C19_Witness ==
    /\ op = "remove" /\ steps = <<>> /\ ~isUsingSteps
    /\ mainTimerRemainingTime > 0

\* C20: at most one tick interval is live, one is live exactly when the
\* engine is running, a tick happens only while the engine is running, and
\* an engine that is not running (paused, reset or completed) becomes running
\* again only by start() or resume().
C20_TicksOnlyWhileRunning ==
    [][ /\ liveIntervals' <= 1
        /\ liveIntervals' = 1 <=> Status' = "running"
        /\ op' = "tick" => Status = "running"
        /\ (Status # "running" /\ Status' = "running")
              => op' \in {"start", "resume"} ]_vars

\* a run was paused in its second step: no interval is live
C20_Witness ==
    /\ op = "pause" /\ snap # <<>> /\ Status = "paused"
    /\ currentStepIndex = 1 /\ liveIntervals = 0

\* every step of a step list lasts at least one second
AllPositive(st) == \A i \in 1..Len(st) : st[i].duration >= 1

\* every preset of a collection has a non-empty list of such steps
WellFormed(ps) ==
    \A i \in 1..Len(ps) : ps[i].steps # <<>> /\ AllPositive(ps[i].steps)

\* C21: every step of the live sequence and of every preset, in memory and
\* in storage, lasts at least one second and every preset has a non-empty
\* step list; append with a time entry of 00:00:00 leaves the sequence
\* unchanged and saving an empty sequence leaves the presets unchanged.
C21_NoZeroLengthStep ==
    [][ /\ AllPositive(steps')
        /\ WellFormed(presets')
        /\ WellFormed(storage'.presets)
        /\ (op' = "append" /\ EntrySeconds = 0) => steps' = steps
        /\ (op' = "savePreset" /\ steps = <<>>)
              => presets' = presets /\ storage' = storage ]_vars

\* Add item was pressed with entry 00:00:00 on a sequence of one step that
\* is also stored as a preset
C21_Witness ==
    /\ op = "append" /\ EntrySeconds = 0
    /\ Len(steps) = 1 /\ Len(presets) = 1
    /\ storage.presets = presets

\* C22: whenever the step sequence is non-empty, activeStepIndex is a valid
\* index into it.
C22_IndexInRange ==
    steps # <<>> => currentStepIndex \in 0..(Len(steps) - 1)

RECURSIVE DurationAfter(_, _)
\* the sum of the durations of the steps after index i (0-based)
DurationAfter(st, i) ==
    IF i + 1 >= Len(st) THEN 0
    ELSE StepAt(st, i + 1).duration + DurationAfter(st, i + 1)

\* C23: sequential mode, engine running or paused, reached from start() on
\* an idle engine by ticks, pause() and resume() only: remainingOverall =
\* remainingStep + the durations of the steps after activeStepIndex, and
\* remainingStep is between 1 and steps[activeStepIndex].duration.
C23_OverallIsStepPlusRest ==
    (runPlain /\ isUsingSteps /\ Status \in {"running", "paused"}) =>
        /\ currentStepIndex \in 0..(Len(steps) - 1)
        /\ mainTimerRemainingTime =
              remainingTime + DurationAfter(steps, currentStepIndex)
        /\ remainingTime >= 1
        /\ remainingTime <= StepAt(steps, currentStepIndex).duration

\* a run of two steps was paused in its second step and resumed
C23_Witness ==
    /\ runPlain /\ isUsingSteps /\ op = "resume" /\ Status = "running"
    /\ Len(steps) = 2 /\ currentStepIndex = 1
    /\ remainingTime = 1 /\ mainTimerRemainingTime = 1

=============================================================================
